---- MODULE Spec2Model ----
(***************************************************************************)
(* State-machine model of the store clients of writer/db:                  *)
(*   MilvusClient  (writer/db/MilvusClient.py): the connection-alias pool, *)
(*                 get_connection / release_connection / reconnect,        *)
(*                 execute_with_retry and the collection operations.       *)
(*   RedisClient   (writer/db/RedisClient.py): the singleton, connect,     *)
(*                 execute_with_retry, reconnect_if_needed, the operations.*)
(*   MysqlClient   (writer/db/MysqlClient.py): the singleton and its       *)
(*                 statement operations.                                   *)
(* Threads call the operations; every backend call (connect, the liveness  *)
(* probe, the operation's work) may succeed or fail.                       *)
(*                                                                         *)
(* Spec     threads calling MilvusClient operations concurrently           *)
(*          (the operations of PoolOps).                                   *)
(* SpecOps  one caller, every operation of the three clients.              *)
(* SpecMysql threads constructing and closing MysqlClient concurrently.    *)
(* SpecLive threads calling collection_info concurrently, with a fair lock *)
(*          and backend calls that end.                                    *)
(***************************************************************************)
EXTENDS Integers, Sequences, FiniteSets, TLC

\* ------------------------------------------------------------------ bounds
\* Number of caller threads.
NumThreads == 2
\* MilvusClient.pool_size (10 in the source), scaled down.
pool_size == 1
\* Total number of operation calls made in one run.
MaxCalls == 2

Threads == 1..NumThreads

\* threading.Lock(): 0 when free, otherwise the thread that holds it.
Unlocked == 0

\* f"CONN_{idx}"
ConnNames == <<"CONN_0", "CONN_1", "CONN_2", "CONN_3", "CONN_4",
               "CONN_5", "CONN_6", "CONN_7", "CONN_8", "CONN_9">>
alias_id(idx) == ConnNames[idx + 1]
Aliases == {alias_id(idx) : idx \in 0..(pool_size - 1)}
\* Python's None for a conn_alias local that holds no alias.
NoAlias == "None"

Range(s) == {s[i] : i \in 1..Len(s)}
Front(s) == SubSeq(s, 1, Len(s) - 1)
Last(s) == s[Len(s)]
Count(s, e) == Cardinality({i \in 1..Len(s) : s[i] = e})

VARIABLES
  connection_pool,  \* MilvusClient.connection_pool: list of available aliases
  lock,             \* MilvusClient.lock
  connected,        \* pymilvus connections: aliases with an established connection
  constructed,      \* history, per alias: successful connections.connect calls of init_connection_pool
  outstanding,      \* history: get_connection returns minus release_connection calls
  calls,            \* history: operation calls started
  pc,               \* per thread: position in the operation it runs
  op,               \* per thread: the operation it runs
  conn_alias,       \* per thread: the local conn_alias
  ev,               \* per thread: events of the current operation call, in order
  ret,              \* per thread: how the call ends
  gc,               \* per thread: what its get_connection call did, until the work starts
  lastReleased,     \* history: the alias given back by the latest operation on the pool, if a release
  redis,            \* RedisClient._instance, its connection and pool attributes, the backend list
  mysql             \* MysqlClient._instance, _initialized and _pool; history counters

vars == <<connection_pool, lock, connected, constructed, outstanding, calls,
          pc, op, conn_alias, ev, ret, gc, lastReleased, redis, mysql>>

milvusVars == <<connection_pool, lock, connected, constructed, outstanding,
                conn_alias, gc, lastReleased>>

\* ------------------------------------------------- MilvusClient: the pool

\* connections.has_connection(alias_id)
has_connection(conns, alias) == alias \in conns

\* init_step with the alias appended before connections.connect is called,
\* so that a failed connect leaves the alias in the list.
init_step_appends_first(idx, st, connect_ok) ==
  LET alias == alias_id(idx)
      c1 == IF has_connection(st.connected, alias)
            THEN st.connected \ {alias} ELSE st.connected
  IN IF connect_ok
     THEN [pool |-> Append(st.pool, alias),
           connected |-> c1 \cup {alias},
           constructed |-> [st.constructed EXCEPT ![alias] = @ + 1],
           errors |-> st.errors]
     ELSE [pool |-> Append(st.pool, alias),
           connected |-> c1,
           constructed |-> st.constructed,
           errors |-> st.errors + 1]

\* One iteration of the loop of init_connection_pool, for index idx:
\* disconnect an existing connection of the alias, append the alias if the
\* list already holds it, connect, append the alias. connect_ok says whether
\* connections.connect succeeds; if it raises, the handler logs and the
\* loop goes on with what was done before the call.
init_step(idx, st, connect_ok) ==
  LET alias == alias_id(idx)
      c1 == IF has_connection(st.connected, alias)
            THEN st.connected \ {alias} ELSE st.connected
      p1 == IF alias \in Range(st.pool)
            THEN Append(st.pool, alias) ELSE st.pool
  IN IF connect_ok
     THEN [pool |-> Append(p1, alias),
           connected |-> c1 \cup {alias},
           constructed |-> [st.constructed EXCEPT ![alias] = @ + 1],
           errors |-> st.errors]
     ELSE [pool |-> p1,
           connected |-> c1,
           constructed |-> st.constructed,
           errors |-> st.errors + 1]

\* for idx in range(self.pool_size), from idx on; ok is the set of indices
\* whose connections.connect succeeds.
RECURSIVE InitLoop(_, _, _)
InitLoop(idx, st, ok) ==
  IF idx >= pool_size THEN st
  ELSE InitLoop(idx + 1, init_step(idx, st, idx \in ok), ok)

\* init_connection_pool with a loop that starts at index 1.
init_connection_pool_skips_first(pool, conns, made, ok) ==
  InitLoop(1, [pool |-> pool, connected |-> conns, constructed |-> made,
               errors |-> 0], ok)

\* init_connection_pool(): the loop from index 0.
init_connection_pool(pool, conns, made, ok) ==
  InitLoop(0, [pool |-> pool, connected |-> conns, constructed |-> made,
               errors |-> 0], ok)

\* The number of connections init_connection_pool has created so far.
RECURSIVE SumUpTo(_, _)
SumUpTo(f, idx) ==
  IF idx < 0 THEN 0 ELSE f[alias_id(idx)] + SumUpTo(f, idx - 1)
Constructed(made) == SumUpTo(made, pool_size - 1)

\* release_connection with the membership test inverted.
release_connection_inverted(pool, alias) ==
  IF alias \in Range(pool) THEN Append(pool, alias) ELSE pool

\* release_connection without the membership test.
release_connection_always(pool, alias) == Append(pool, alias)

\* release_connection's body under the lock.
release_connection(pool, alias) ==
  IF alias \notin Range(pool) THEN Append(pool, alias) ELSE pool

\* reconnect(conn_alias): disconnect, then connect; ok says whether connect
\* succeeds. A failure is caught and logged, nothing is raised.
reconnect(conns, alias, ok) ==
  IF ok THEN conns \cup {alias} ELSE conns \ {alias}

\* reconnect whose handler swallows the failure without logging it.
reconnect_events_silent(ok) ==
  IF ok THEN <<"reconnect_ok">> ELSE <<"reconnect_failed">>

\* What a call of reconnect leaves in the log of events.
reconnect_events(ok) ==
  IF ok THEN <<"reconnect_ok">> ELSE <<"reconnect_failed", "Log.error">>

\* The latest operation on the pool was no release_connection.
NoRelease == [alias |-> NoAlias, was_present |-> FALSE]

\* No get_connection call of the thread is in progress or has just returned.
NoGet == [after_release |-> NoAlias, created |-> 0, probe |-> "none"]

\* check_connection without the backend call: it reports every alias alive.
check_connection_no_probe(conns, alias) == {TRUE}

\* check_connection(conn_alias): the probe fails on a missing connection and
\* may fail on an established one (backend unreachable).
check_connection_results(conns, alias) ==
  IF alias \in conns THEN {TRUE, FALSE} ELSE {FALSE}

\* ------------------------------------------- MilvusClient: the operations

ReconnectAndRaiseOps ==
  {"insert", "insert_all", "load_collection", "release_collection",
   "delete_collection"}

MilvusOps ==
  ReconnectAndRaiseOps \cup
  {"create_collection", "collection_info", "collection_list", "is_loaded",
   "search", "execute_with_retry"}

\* What the try body of operation o can do on alias: return, or raise an
\* exception of a class its handlers tell apart.
WorkResults(o, conns, alias) ==
  LET raised ==
        CASE o \in {"create_collection", "collection_info", "is_loaded"}
               -> {"MilvusException", "Exception"}
          [] o = "search"
               -> {"MilvusException1100", "MilvusException", "Exception"}
          [] OTHER -> {"Exception"}
  IN IF alias \in conns THEN {"ok"} \cup raised ELSE raised

\* search with a handler that treats every MilvusException alike and
\* re-raises it.
search_handler_raises(r) ==
  IF r = "Exception"
  THEN [reconnect |-> TRUE, ret |-> "raised"]
  ELSE [reconnect |-> FALSE, ret |-> "raised"]

\* The except clauses of search for exception r of its try body. A
\* MilvusException is caught by the first clause: with code 1100 it
\* returns [] ("soft"); with another code the clause ends without a return
\* or a raise, so search returns None after the finally clause. Any other
\* exception: reconnect, raise.
search_handler(r) ==
  CASE r = "MilvusException1100" -> [reconnect |-> FALSE, ret |-> "soft"]
    [] r = "MilvusException" -> [reconnect |-> FALSE, ret |-> "returned None"]
    [] r = "Exception" -> [reconnect |-> TRUE, ret |-> "raised"]

\* The handler of operation o for result r of its try body:
\* whether it calls reconnect, and how the call ends if nothing else
\* happens ("returned", "soft" for a fail-soft value, "raised").
Handler(o, r) ==
  CASE r = "ok" -> [reconnect |-> FALSE, ret |-> "returned"]
    [] r # "ok" /\ o \in ReconnectAndRaiseOps
         -> [reconnect |-> TRUE, ret |-> "raised"]
    [] r # "ok" /\ o = "create_collection"
         -> [reconnect |-> TRUE,
             ret |-> IF r = "MilvusException" THEN "soft" ELSE "raised"]
    [] r # "ok" /\ o = "collection_info"
         -> [reconnect |-> (r = "Exception"), ret |-> "soft"]
    [] r # "ok" /\ o = "collection_list"
         -> [reconnect |-> TRUE, ret |-> "soft"]
    [] r # "ok" /\ o = "is_loaded"
         -> IF r = "MilvusException"
            THEN [reconnect |-> TRUE, ret |-> "soft"]
            ELSE [reconnect |-> FALSE, ret |-> "raised"]
    [] r # "ok" /\ o = "search" -> search_handler(r)
    [] r # "ok" /\ o = "execute_with_retry"
         -> [reconnect |-> TRUE, ret |-> "raised"]

\* ------------------------------------------------------------------- Init

\* The state after MilvusClient(): __init__ ran init_connection_pool on an
\* empty pool; any subset of the connections may have failed.
Init ==
  \E ok \in SUBSET (0..(pool_size - 1)) :
    LET st == init_connection_pool(<<>>, {}, [a \in Aliases |-> 0], ok)
    IN /\ connection_pool = st.pool
       /\ connected = st.connected
       /\ constructed = st.constructed
       /\ lock = Unlocked
       /\ outstanding = 0
       /\ calls = 0
       /\ pc = [t \in Threads |-> "idle"]
       /\ op = [t \in Threads |-> "none"]
       /\ conn_alias = [t \in Threads |-> NoAlias]
       /\ ev = [t \in Threads |-> <<>>]
       /\ ret = [t \in Threads |-> "none"]
       /\ gc = [t \in Threads |-> NoGet]
       /\ lastReleased = NoRelease
       /\ redis = [instance |-> FALSE, connection |-> FALSE, pool |-> FALSE,
              queue |-> <<>>, pushed |-> <<>>, fetched |-> <<>>]
       /\ mysql = [instance |-> FALSE, initialized |-> FALSE, pool |-> FALSE,
              objects |-> 0, pools |-> 0, closes |-> 0]

\* ---------------------------------------------------------------- actions

\* A thread calls operation o; the operation starts with get_connection().
Call(t, o) ==
  /\ pc[t] = "idle"
  /\ calls < MaxCalls
  /\ calls' = calls + 1
  /\ op' = [op EXCEPT ![t] = o]
  /\ pc' = [pc EXCEPT ![t] = "get_connection"]
  /\ ev' = [ev EXCEPT ![t] = <<>>]
  /\ ret' = [ret EXCEPT ![t] = "none"]
  /\ conn_alias' = [conn_alias EXCEPT ![t] = NoAlias]
  /\ UNCHANGED <<redis, mysql, connection_pool, lock, connected, constructed, outstanding,
                 gc, lastReleased>>

\* get_connection that waits for a release when the list is empty.
get_connection_waits_on_empty(pool) == pool = <<>>

\* Whether get_connection, once it has the lock, waits on the state of the
\* list: it never does; on an empty list it calls init_connection_pool.
get_connection_waits(pool) == FALSE

\* get_connection, first part: take the lock, re-run init_connection_pool
\* if the pool is empty, pop. pop on a still empty list raises IndexError,
\* which leaves the with block (the lock is released) and the operation.
GetConnectionPop(t) ==
  /\ pc[t] = "get_connection"
  /\ lock = Unlocked
  /\ ~get_connection_waits(connection_pool)
  /\ \E ok \in SUBSET (0..(pool_size - 1)) :
       LET empty == connection_pool = <<>>
           st == IF empty
                 THEN init_connection_pool(connection_pool, connected,
                                           constructed, ok)
                 ELSE [pool |-> connection_pool, connected |-> connected,
                       constructed |-> constructed, errors |-> 0]
           did == [after_release |-> lastReleased.alias,
                   created |-> Constructed(st.constructed)
                               - Constructed(constructed),
                   probe |-> "pending"]
       IN /\ (~empty => ok = {})
          /\ connected' = st.connected
          /\ constructed' = st.constructed
          /\ gc' = [gc EXCEPT ![t] = did]
          /\ IF st.pool = <<>>
             THEN /\ connection_pool' = st.pool
                  /\ lock' = Unlocked
                  /\ pc' = [pc EXCEPT ![t] = "done"]
                  /\ ret' = [ret EXCEPT ![t] = "raised"]
                  /\ ev' = [ev EXCEPT ![t] = Append(@, "IndexError")]
                  /\ UNCHANGED conn_alias
             ELSE /\ connection_pool' = Front(st.pool)
                  /\ conn_alias' = [conn_alias EXCEPT ![t] = Last(st.pool)]
                  /\ lock' = t
                  /\ pc' = [pc EXCEPT ![t] = "check_connection"]
                  /\ UNCHANGED <<ret, ev>>
  /\ lastReleased' = NoRelease
  /\ UNCHANGED <<redis, mysql, outstanding, calls, op>>

\* get_connection, second part, still under the lock: check_connection,
\* reconnect if the probe failed, return the alias (the lock is released).
GetConnectionCheck(t) ==
  /\ pc[t] = "check_connection"
  /\ lock = t
  /\ \E alive \in check_connection_results(connected, conn_alias[t]),
        ok \in BOOLEAN :
       /\ (alive => ok)
       /\ connected' = IF alive THEN connected
                       ELSE reconnect(connected, conn_alias[t], ok)
       /\ gc' = [gc EXCEPT ![t].probe =
                   CASE alive -> "ok"
                     [] ~alive /\ ok -> "reconnect_ok"
                     [] ~alive /\ ~ok -> "reconnect_failed"]
  /\ ev' = [ev EXCEPT ![t] = Append(@, "get_connection")]
  /\ lock' = Unlocked
  /\ outstanding' = outstanding + 1
  /\ pc' = [pc EXCEPT ![t] =
              IF op[t] = "collection_info" THEN "has_collection" ELSE "work"]
  /\ UNCHANGED <<redis, mysql, connection_pool, constructed, calls, op, conn_alias, ret,
                 lastReleased>>

\* collection_info only: utility.has_collection, called before the try
\* statement. "absent" returns CollectionInfo(status="N") at once and
\* "raised" propagates; neither path reaches the finally clause.
has_collection_results(conns, alias) ==
  IF alias \in conns THEN {"present", "absent", "raised"} ELSE {"raised"}

HasCollection(t) ==
  /\ pc[t] = "has_collection"
  /\ \E r \in has_collection_results(connected, conn_alias[t]) :
       /\ ev' = [ev EXCEPT ![t] = Append(@, "has_collection_" \o r)]
       /\ pc' = [pc EXCEPT ![t] = IF r = "present" THEN "work" ELSE "done"]
       /\ ret' = [ret EXCEPT ![t] =
                    CASE r = "present" -> @
                      [] r = "absent" -> "soft"
                      [] r = "raised" -> "raised"]
  /\ gc' = [gc EXCEPT ![t] = NoGet]
  /\ UNCHANGED <<redis, mysql, connection_pool, lock, connected, constructed, outstanding,
                 calls, op, conn_alias, lastReleased>>

\* What the try body leaves in the events of the call; for search, whose
\* handlers tell the error codes apart, the exception follows.
work_events(o, r) ==
  CASE r = "ok" -> <<"work_ok">>
    [] r # "ok" /\ o = "search" -> <<"work_raised", r>>
    [] OTHER -> <<"work_raised">>

\* A handler that runs the work again instead of reconnecting.
AfterWork_retries(o, r) ==
  IF r # "ok" THEN "retry" ELSE "release_connection"

\* Where the thread goes after the try body ended with result r.
AfterWork(o, r) ==
  IF Handler(o, r).reconnect THEN "reconnect" ELSE "release_connection"

\* The try body of the operation: func(conn_alias) for execute_with_retry,
\* the backend calls on conn_alias for the others.
Work(t) ==
  /\ pc[t] = "work"
  /\ \E r \in WorkResults(op[t], connected, conn_alias[t]) :
       /\ ev' = [ev EXCEPT ![t] = @ \o work_events(op[t], r)]
       /\ ret' = [ret EXCEPT ![t] = Handler(op[t], r).ret]
       /\ pc' = [pc EXCEPT ![t] = AfterWork(op[t], r)]
  /\ gc' = [gc EXCEPT ![t] = NoGet]
  /\ UNCHANGED <<redis, mysql, connection_pool, lock, connected, constructed, outstanding,
                 calls, op, conn_alias, lastReleased>>

\* execute_with_retry without its second func call.
AfterReconnect_no_retry(o) == "release_connection"

\* Where the thread goes after the handler's reconnect.
AfterReconnect(o) ==
  IF o = "execute_with_retry" THEN "retry" ELSE "release_connection"

\* self.reconnect(conn_alias) in an except clause (no lock is held).
Reconnect(t) ==
  /\ pc[t] = "reconnect"
  /\ \E ok \in BOOLEAN :
       /\ connected' = reconnect(connected, conn_alias[t], ok)
       /\ ev' = [ev EXCEPT ![t] = @ \o reconnect_events(ok)]
  /\ pc' = [pc EXCEPT ![t] = AfterReconnect(op[t])]
  /\ UNCHANGED <<redis, mysql, connection_pool, lock, constructed, outstanding, calls, op,
                 conn_alias, ret, gc, lastReleased>>

\* execute_with_retry retrying as long as func fails.
AfterRetry_again(r) == IF r = "ok" THEN "release_connection" ELSE "reconnect"

\* Where the thread goes after the second func call ended with result r:
\* to the finally clause.
AfterRetry(r) == "release_connection"

\* execute_with_retry, in the except clause: return func(conn_alias, ...)
\* once more; an exception of this call propagates.
Retry(t) ==
  /\ pc[t] = "retry"
  /\ \E r \in WorkResults(op[t], connected, conn_alias[t]) :
       /\ ev' = [ev EXCEPT ![t] =
                   Append(@, IF r = "ok" THEN "work_ok" ELSE "work_raised")]
       /\ ret' = [ret EXCEPT ![t] = IF r = "ok" THEN "returned" ELSE "raised"]
       /\ pc' = [pc EXCEPT ![t] = AfterRetry(r)]
  /\ UNCHANGED <<redis, mysql, connection_pool, lock, connected, constructed, outstanding,
                 calls, op, conn_alias, gc, lastReleased>>

\* The finally clause: release_connection(conn_alias), under the lock.
Release(t) ==
  /\ pc[t] = "release_connection"
  /\ lock = Unlocked
  /\ connection_pool' = release_connection(connection_pool, conn_alias[t])
  /\ outstanding' = outstanding - 1
  /\ ev' = [ev EXCEPT ![t] = Append(@, "release_connection")]
  /\ pc' = [pc EXCEPT ![t] = "done"]
  /\ lastReleased' = [alias |-> conn_alias[t],
                      was_present |-> conn_alias[t] \in Range(connection_pool)]
  /\ UNCHANGED <<redis, mysql, lock, connected, constructed, calls, op, conn_alias, ret, gc>>

\* The call is over: its result or exception has reached the caller.
Return(t) ==
  /\ pc[t] = "done"
  /\ pc' = [pc EXCEPT ![t] = "idle"]
  /\ op' = [op EXCEPT ![t] = "none"]
  /\ ev' = [ev EXCEPT ![t] = <<>>]
  /\ ret' = [ret EXCEPT ![t] = "none"]
  /\ conn_alias' = [conn_alias EXCEPT ![t] = NoAlias]
  /\ gc' = [gc EXCEPT ![t] = NoGet]
  /\ UNCHANGED <<redis, mysql, connection_pool, lock, connected, constructed, outstanding,
                 calls, lastReleased>>

\* ---------------------------------------------------------- RedisClient

\* RedisClient.max_retries
max_retries == 3

\* connect(), lines 40-47: redis_config is bound to a dict literal, which is
\* truthy, so line 47 evaluates redis_config.decode('utf-8'); whether that
\* call exists depends on the value being bytes. It is a dict.
redis_config_is_bytes == FALSE

\* connect(): on any exception it logs and re-raises; the pool and the
\* connection are assigned only after the configuration was decoded.
redis_connect(r, ping_ok) ==
  IF ~redis_config_is_bytes
  THEN [redis |-> r, raised |-> TRUE]
  ELSE [redis |-> [r EXCEPT !.pool = TRUE, !.connection = TRUE],
        raised |-> ~ping_ok]

\* RedisClient(): __new__ with the double-checked _instance; the instance is
\* stored in cls._instance before connect() runs.
redis_new(r, ping_ok) ==
  IF r.instance
  THEN [redis |-> r, raised |-> FALSE]
  ELSE redis_connect([r EXCEPT !.instance = TRUE, !.connection = FALSE,
                                !.pool = FALSE], ping_ok)

\* The operations that go through execute_with_retry with a lambda on
\* self.connection, and those that call reconnect_if_needed first.
RedisRetryOps == {"RedisClient.get", "RedisClient.fetch"}
RedisPingOps ==
  {"RedisClient.set", "RedisClient.set_with_expire", "RedisClient.delete",
   "RedisClient.delete_all", "RedisClient.exists", "RedisClient.push"}
RedisOps ==
  RedisRetryOps \cup RedisPingOps \cup {"RedisClient.execute_with_retry"}

\* What a call on self.connection does: on None it raises AttributeError
\* (not a ConnectionError or TimeoutError); a func passed to
\* execute_with_retry directly does what the caller made it do.
\* "ConnectionError" stands for (ConnectionError, TimeoutError).
redis_result(o, r, res) ==
  IF o # "RedisClient.execute_with_retry" /\ ~r.connection
  THEN "AttributeError" ELSE res

\* The events of a call on self.connection that raised an exception which
\* no handler of the client catches apart.
redis_raised(what, res) ==
  IF res = "AttributeError" THEN <<what, "AttributeError">> ELSE <<what>>

\* execute_with_retry(func): the loop over range(max_retries), from attempt
\* on; rs[attempt] is what func does in that attempt.
RECURSIVE redis_execute_with_retry(_, _, _, _, _, _)
redis_execute_with_retry(o, attempt, rs, ping_ok, r, trace) ==
  IF attempt >= max_retries
  THEN [redis |-> r, ev |-> trace, ret |-> "returned"]
  ELSE
    LET res == redis_result(o, r, rs[attempt]) IN
    CASE res = "ok" ->
           [redis |-> r, ev |-> Append(trace, "work_ok"), ret |-> "returned"]
      [] res \in {"Exception", "AttributeError"} ->
           [redis |-> r, ev |-> trace \o redis_raised("work_raised", res),
            ret |-> "raised"]
      [] res = "ConnectionError" ->
           IF attempt = max_retries - 1
           THEN [redis |-> r, ev |-> trace \o <<"work_raised", "Log.error">>,
                 ret |-> "raised"]
           ELSE LET c == redis_connect(r, ping_ok) IN
                IF c.raised
                THEN [redis |-> c.redis,
                      ev |-> trace \o <<"work_raised", "connect_raised">>,
                      ret |-> "raised"]
                ELSE redis_execute_with_retry(o, attempt + 1, rs, ping_ok,
                       c.redis, trace \o <<"work_raised", "connect_ok">>)

\* reconnect_if_needed(), then the single call on self.connection.
redis_ping_op(o, r, probe, ping_ok, res) ==
  LET p == redis_result(o, r, probe) IN
  CASE p \in {"Exception", "AttributeError"} ->
         [redis |-> r, ev |-> redis_raised("ping_raised", p), ret |-> "raised"]
    [] p = "ConnectionError" ->
         LET c == redis_connect(r, ping_ok) IN
         IF c.raised
         THEN [redis |-> c.redis,
               ev |-> <<"ping_raised", "Log.error", "connect_raised">>,
               ret |-> "raised"]
         ELSE [redis |-> c.redis,
               ev |-> <<"ping_raised", "Log.error", "connect_ok">>
                      \o (IF res = "ok" THEN <<"work_ok">>
                          ELSE <<"work_raised">>),
               ret |-> IF res = "ok" THEN "returned" ELSE "raised"]
    [] p = "ok" ->
         [redis |-> r,
          ev |-> <<"ping_ok">> \o (IF res = "ok" THEN <<"work_ok">>
                                   ELSE <<"work_raised">>),
          ret |-> IF res = "ok" THEN "returned" ELSE "raised"]

RedisResults == {"ok", "ConnectionError", "Exception"}

\* The values a caller passes to push; "None" stands for None.
PushValues == {"a", "b", "None"}

\* push: value = str(value) if value is not None else "". The backend
\* keeps the bytes of that text.
redis_str(value) == IF value = "None" THEN "" ELSE value
redis_bytes(text) == [type |-> "bytes", v |-> text]

\* connection.lpush(queue, value): the value becomes the head of the list.
redis_lpush(q, b) == <<b>> \o q

\* connection.rpop(key): the last element of the list, or None.
redis_rpop(q) ==
  IF q = <<>> THEN [queue |-> q, value |-> [type |-> "None", v |-> ""]]
  ELSE [queue |-> Front(q), value |-> Last(q)]

\* fetch: a value that is truthy and bytes is decoded, any other value is
\* returned as it is (None, and the empty bytes).
redis_decode(value) ==
  IF value.type = "bytes" /\ value.v # ""
  THEN [type |-> "str", v |-> value.v] ELSE value

\* What a call that reached the backend and got its answer did to the
\* list: c is the outcome of the call of operation o with argument value.
redis_queue(o, c, value) ==
  IF c.ret # "returned" THEN c.redis
  ELSE CASE o = "RedisClient.push" ->
              [c.redis EXCEPT
                 !.queue = redis_lpush(@, redis_bytes(redis_str(value))),
                 !.pushed = Append(@, redis_str(value))]
         [] o = "RedisClient.fetch" ->
              LET x == redis_rpop(c.redis.queue) IN
              [c.redis EXCEPT !.queue = x.queue,
                              !.fetched = Append(@, redis_decode(x.value))]
         [] OTHER -> c.redis

\* disconnect without the test of self.connection.
redis_disconnect_unguarded(r, close_ok) ==
  LET closed == r.connection /\ close_ok
      c1 == IF closed THEN [r EXCEPT !.connection = FALSE] ELSE r
      e1 == IF closed THEN <<"connection.close">>
            ELSE <<"connection.close_raised">>
  IN [redis |-> [c1 EXCEPT !.pool = FALSE],
      ev |-> e1 \o (IF r.pool THEN <<"pool.disconnect">> ELSE <<>>),
      raised |-> ~closed]

\* disconnect(): if there is a connection it is closed and forgotten; the
\* finally clause disconnects and forgets the pool, if there is one, also
\* when close() raised (the connection attribute is then left as it was).
redis_disconnect(r, close_ok) ==
  LET closed == r.connection /\ close_ok
      c1 == IF closed THEN [r EXCEPT !.connection = FALSE] ELSE r
      e1 == CASE ~r.connection -> <<>>
              [] r.connection /\ close_ok -> <<"connection.close">>
              [] r.connection /\ ~close_ok -> <<"connection.close_raised">>
  IN [redis |-> [c1 EXCEPT !.pool = FALSE],
      ev |-> e1 \o (IF r.pool THEN <<"pool.disconnect">> ELSE <<>>),
      raised |-> r.connection /\ ~close_ok]

\* A call of disconnect() on the instance.
RedisDisconnect(t) ==
  /\ pc[t] = "idle"
  /\ calls < MaxCalls
  /\ redis.instance
  /\ calls' = calls + 1
  /\ \E close_ok \in BOOLEAN :
       LET c == redis_disconnect(redis, close_ok) IN
       /\ redis' = c.redis
       /\ ev' = [ev EXCEPT ![t] = c.ev]
       /\ ret' = [ret EXCEPT ![t] = IF c.raised THEN "raised" ELSE "returned"]
  /\ op' = [op EXCEPT ![t] = "RedisClient.disconnect"]
  /\ pc' = [pc EXCEPT ![t] = "done"]
  /\ UNCHANGED <<milvusVars, mysql>>

\* RedisClient(): the constructor call.
RedisNew(t) ==
  /\ pc[t] = "idle"
  /\ calls < MaxCalls
  /\ calls' = calls + 1
  /\ \E ping_ok \in BOOLEAN :
       LET c == redis_new(redis, ping_ok) IN
       /\ redis' = c.redis
       /\ ret' = [ret EXCEPT ![t] = IF c.raised THEN "raised" ELSE "returned"]
       /\ ev' = [ev EXCEPT ![t] =
                   IF c.raised THEN <<"connect_raised">> ELSE <<>>]
  /\ op' = [op EXCEPT ![t] = "RedisClient.__new__"]
  /\ pc' = [pc EXCEPT ![t] = "done"]
  /\ UNCHANGED <<milvusVars, mysql>>

\* A call of operation o on the instance that RedisClient() hands out.
RedisCall(t, o) ==
  /\ pc[t] = "idle"
  /\ calls < MaxCalls
  /\ redis.instance
  /\ calls' = calls + 1
  /\ \E rs \in [0..(max_retries - 1) -> RedisResults], ping_ok \in BOOLEAN,
        value \in PushValues :
       LET c == IF o \in RedisPingOps
                THEN redis_ping_op(o, redis, rs[0], ping_ok, rs[1])
                ELSE redis_execute_with_retry(o, 0, rs, ping_ok, redis, <<>>)
       IN /\ redis' = redis_queue(o, c, value)
          /\ ev' = [ev EXCEPT ![t] = c.ev]
          /\ ret' = [ret EXCEPT ![t] = c.ret]
  /\ op' = [op EXCEPT ![t] = o]
  /\ pc' = [pc EXCEPT ![t] = "done"]
  /\ UNCHANGED <<milvusVars, mysql>>

\* ---------------------------------------------------------- MysqlClient

\* MysqlClient.__new__, under cls._lock: the instance is created if
\* cls._instance is None; objects counts the instances created.
mysql_alloc(m) ==
  IF m.instance THEN m
  ELSE [m EXCEPT !.instance = TRUE, !.objects = @ + 1]

\* __init__ without the test of _initialized.
mysql_init_always(m, pool_ok) ==
  IF pool_ok
  THEN [mysql |-> [m EXCEPT !.initialized = TRUE, !.pool = TRUE,
                            !.pools = @ + 1],
        raised |-> FALSE]
  ELSE [mysql |-> m, raised |-> TRUE]

\* MysqlClient.__init__, under self._lock: the PooledDB is built unless
\* _initialized; a failure is logged and re-raised, and leaves the client
\* as it was. pools counts the PooledDB objects built.
mysql_init(m, pool_ok) ==
  IF m.initialized
  THEN [mysql |-> m, raised |-> FALSE]
  ELSE IF pool_ok
       THEN [mysql |-> [m EXCEPT !.initialized = TRUE, !.pool = TRUE,
                                 !.pools = @ + 1],
             raised |-> FALSE]
       ELSE [mysql |-> m, raised |-> TRUE]

\* MysqlClient(...): __new__, then __init__ on what it returned.
mysql_new(m, pool_ok) == mysql_init(mysql_alloc(m), pool_ok)

\* MysqlClient.close(): closes and forgets the pool, if there is one.
mysql_close(m) ==
  IF m.pool
  THEN [m EXCEPT !.pool = FALSE, !.initialized = FALSE, !.closes = @ + 1]
  ELSE m

MysqlWriteOps ==
  {"MysqlClient.execute", "MysqlClient.execute_many", "MysqlClient.insert",
   "MysqlClient.insert_many", "MysqlClient.update", "MysqlClient.delete"}
MysqlQueryOps ==
  {"MysqlClient.query_one", "MysqlClient.query_all",
   "MysqlClient.query_limit", "MysqlClient.count"}
MysqlOps == MysqlWriteOps \cup MysqlQueryOps
\* The operations whose argument is a list or a dict, which may be empty.
MysqlCollectionOps ==
  {"MysqlClient.execute_many", "MysqlClient.insert_many",
   "MysqlClient.insert", "MysqlClient.update"}

\* Without the tests of execute_many and insert_many.
MysqlEmptyOps_without_many == {"MysqlClient.insert", "MysqlClient.update"}

\* The operations that return 0 at once on an empty argument.
MysqlEmptyOps ==
  {"MysqlClient.execute_many", "MysqlClient.insert_many",
   "MysqlClient.insert", "MysqlClient.update"}

\* One statement operation: take a connection from the pool and a cursor,
\* run the statement once; the write operations commit, or roll back and
\* re-raise; the finally clause closes the cursor and the connection.
mysql_statement(o, m, empty, conn_ok, work_ok, commit_ok, rollback_ok) ==
  LET closes == <<"cursor.close", "conn.close">>
      failed == IF rollback_ok THEN <<"rollback", "Log.error">>
                ELSE <<"rollback_raised">>
  IN
  CASE o \in MysqlEmptyOps /\ empty -> [ev |-> <<>>, ret |-> "returned 0"]
    [] ~(o \in MysqlEmptyOps /\ empty) /\ ~m.pool ->
         [ev |-> <<>>, ret |-> "raised"]
    [] ~(o \in MysqlEmptyOps /\ empty) /\ m.pool /\ ~conn_ok ->
         [ev |-> <<"connection_raised">>, ret |-> "raised"]
    [] ~(o \in MysqlEmptyOps /\ empty) /\ m.pool /\ conn_ok ->
         IF o \in MysqlQueryOps
         THEN IF work_ok
              THEN [ev |-> <<"connection", "work_ok">> \o closes,
                    ret |-> "returned"]
              ELSE [ev |-> <<"connection", "work_raised", "Log.error">>
                           \o closes,
                    ret |-> "raised"]
         ELSE IF work_ok /\ commit_ok
              THEN [ev |-> <<"connection", "work_ok", "commit">> \o closes,
                    ret |-> "returned"]
              ELSE IF work_ok
              THEN [ev |-> <<"connection", "work_ok", "commit_raised">>
                           \o failed \o closes,
                    ret |-> "raised"]
              ELSE [ev |-> <<"connection", "work_raised">> \o failed
                           \o closes,
                    ret |-> "raised"]

\* MysqlClient(...): the constructor call.
MysqlNew(t) ==
  /\ pc[t] = "idle"
  /\ calls < MaxCalls
  /\ calls' = calls + 1
  /\ \E pool_ok \in BOOLEAN :
       LET c == mysql_new(mysql, pool_ok) IN
       /\ mysql' = c.mysql
       /\ ret' = [ret EXCEPT ![t] = IF c.raised THEN "raised" ELSE "returned"]
  /\ ev' = [ev EXCEPT ![t] = <<>>]
  /\ op' = [op EXCEPT ![t] = "MysqlClient.__init__"]
  /\ pc' = [pc EXCEPT ![t] = "done"]
  /\ UNCHANGED <<milvusVars, redis>>

\* A call of statement operation o on MysqlClient._instance; a call with
\* an empty list or dict is noted at the head of its events.
MysqlCall(t, o) ==
  /\ pc[t] = "idle"
  /\ calls < MaxCalls
  /\ mysql.instance
  /\ calls' = calls + 1
  /\ \E empty, conn_ok, work_ok, commit_ok, rollback_ok \in BOOLEAN :
       LET c == mysql_statement(o, mysql, empty, conn_ok, work_ok, commit_ok,
                                rollback_ok)
       IN /\ (empty => o \in MysqlCollectionOps)
          /\ ev' = [ev EXCEPT ![t] =
                      (IF empty THEN <<"empty_argument">> ELSE <<>>) \o c.ev]
          /\ ret' = [ret EXCEPT ![t] = c.ret]
  /\ op' = [op EXCEPT ![t] = o]
  /\ pc' = [pc EXCEPT ![t] = "done"]
  /\ UNCHANGED <<milvusVars, redis, mysql>>

\* __exit__ with the closes in the try block instead of a finally clause.
transaction_exit_no_finally(body_ok, commit_ok, rollback_ok) ==
  LET closes == <<"cursor.close", "conn.close">> IN
  IF body_ok
  THEN IF commit_ok
       THEN [ev |-> <<"commit">> \o closes, ret |-> "returned"]
       ELSE [ev |-> <<"commit_raised">>, ret |-> "raised"]
  ELSE IF rollback_ok
       THEN [ev |-> <<"rollback", "Log.error">> \o closes, ret |-> "raised"]
       ELSE [ev |-> <<"rollback_raised">>, ret |-> "raised"]

\* TransactionContext.__exit__: commit if the body raised nothing, else
\* rollback and log; the finally clause closes the cursor and the
\* connection; it returns False, so an exception of the body goes on.
transaction_exit(body_ok, commit_ok, rollback_ok) ==
  LET closes == <<"cursor.close", "conn.close">> IN
  IF body_ok
  THEN IF commit_ok
       THEN [ev |-> <<"commit">> \o closes, ret |-> "returned"]
       ELSE [ev |-> <<"commit_raised">> \o closes, ret |-> "raised"]
  ELSE IF rollback_ok
       THEN [ev |-> <<"rollback", "Log.error">> \o closes, ret |-> "raised"]
       ELSE [ev |-> <<"rollback_raised">> \o closes, ret |-> "raised"]

\* with client.transaction() as cursor: body. __enter__ takes a connection
\* from the pool and a cursor from it; the scope is entered once both exist.
mysql_transaction(m, conn_ok, cursor_ok, body_ok, commit_ok, rollback_ok) ==
  CASE ~m.pool -> [ev |-> <<>>, ret |-> "raised"]
    [] m.pool /\ ~conn_ok -> [ev |-> <<"connection_raised">>, ret |-> "raised"]
    [] m.pool /\ conn_ok /\ ~cursor_ok ->
         [ev |-> <<"connection", "cursor_raised">>, ret |-> "raised"]
    [] m.pool /\ conn_ok /\ cursor_ok ->
         LET x == transaction_exit(body_ok, commit_ok, rollback_ok) IN
         [ev |-> <<"connection", "cursor",
                   IF body_ok THEN "body_ok" ELSE "body_raised">> \o x.ev,
          ret |-> x.ret]

\* A transaction scope run by a caller.
MysqlTransaction(t) ==
  /\ pc[t] = "idle"
  /\ calls < MaxCalls
  /\ mysql.instance
  /\ calls' = calls + 1
  /\ \E conn_ok, cursor_ok, body_ok, commit_ok, rollback_ok \in BOOLEAN :
       LET c == mysql_transaction(mysql, conn_ok, cursor_ok, body_ok,
                                  commit_ok, rollback_ok)
       IN /\ ev' = [ev EXCEPT ![t] = c.ev]
          /\ ret' = [ret EXCEPT ![t] = c.ret]
  /\ op' = [op EXCEPT ![t] = "MysqlClient.transaction"]
  /\ pc' = [pc EXCEPT ![t] = "done"]
  /\ UNCHANGED <<milvusVars, redis, mysql>>

\* The two ways to construct the client: MysqlClient(...) and
\* MysqlClient.get_instance(...).
MysqlConstructors == {"MysqlClient.__init__", "MysqlClient.get_instance"}

\* A thread starts constructing the client. get_instance first reads
\* cls._instance, without the lock; MysqlClient(...) goes to __new__.
MysqlConstruct(t, o) ==
  /\ pc[t] = "idle"
  /\ calls < MaxCalls
  /\ calls' = calls + 1
  /\ op' = [op EXCEPT ![t] = o]
  /\ pc' = [pc EXCEPT ![t] =
              IF o = "MysqlClient.get_instance"
              THEN "MysqlClient.get_instance" ELSE "MysqlClient.__new__"]
  /\ UNCHANGED <<milvusVars, redis, mysql, ev, ret>>

\* get_instance: if cls._instance is None it calls cls(**kwargs); it
\* returns cls._instance.
MysqlGetInstance(t) ==
  /\ pc[t] = "MysqlClient.get_instance"
  /\ IF mysql.instance
     THEN /\ pc' = [pc EXCEPT ![t] = "done"]
          /\ ret' = [ret EXCEPT ![t] = "returned"]
     ELSE /\ pc' = [pc EXCEPT ![t] = "MysqlClient.__new__"]
          /\ UNCHANGED ret
  /\ UNCHANGED <<milvusVars, redis, mysql, calls, op, ev>>

\* __new__: its body runs under cls._lock.
MysqlAlloc(t) ==
  /\ pc[t] = "MysqlClient.__new__"
  /\ mysql' = mysql_alloc(mysql)
  /\ pc' = [pc EXCEPT ![t] = "MysqlClient.__init__"]
  /\ UNCHANGED <<milvusVars, redis, calls, op, ev, ret>>

\* __init__: its body runs under self._lock, the same lock.
MysqlInit(t) ==
  /\ pc[t] = "MysqlClient.__init__"
  /\ \E pool_ok \in BOOLEAN :
       LET c == mysql_init(mysql, pool_ok) IN
       /\ mysql' = c.mysql
       /\ ret' = [ret EXCEPT ![t] = IF c.raised THEN "raised" ELSE "returned"]
       /\ ev' = [ev EXCEPT ![t] =
                   IF c.mysql.pools > mysql.pools THEN <<"PooledDB">>
                   ELSE IF c.raised THEN <<"PooledDB_raised", "Log.error">>
                   ELSE <<>>]
  /\ pc' = [pc EXCEPT ![t] = "done"]
  /\ UNCHANGED <<milvusVars, redis, calls, op>>

\* close()
MysqlClose(t) ==
  /\ pc[t] = "idle"
  /\ calls < MaxCalls
  /\ mysql.instance
  /\ calls' = calls + 1
  /\ mysql' = mysql_close(mysql)
  /\ op' = [op EXCEPT ![t] = "MysqlClient.close"]
  /\ ret' = [ret EXCEPT ![t] = "returned"]
  /\ ev' = [ev EXCEPT ![t] = <<>>]
  /\ pc' = [pc EXCEPT ![t] = "done"]
  /\ UNCHANGED <<milvusVars, redis>>

\* ------------------------------------------------------- specifications

\* The steps of one thread on the MilvusClient pool; ops is what it may call.
PoolStep(t, ops) ==
  \/ \E o \in ops : Call(t, o)
  \/ GetConnectionPop(t)
  \/ GetConnectionCheck(t)
  \/ HasCollection(t)
  \/ Work(t)
  \/ Reconnect(t)
  \/ Release(t)
  \/ Return(t)

\* The operations that concurrent callers run in Spec: one whose handler
\* reconnects and re-raises, and the one with exits before its try statement.
PoolOps == {"insert", "collection_info"}

Next == \E t \in Threads : PoolStep(t, PoolOps)

Spec == Init /\ [][Next]_vars

\* One caller, every operation of the three clients.
OneThread == {1}

NextOps ==
  \E t \in OneThread :
    \/ PoolStep(t, MilvusOps)
    \/ Retry(t)
    \/ RedisNew(t)
    \/ \E o \in RedisOps : RedisCall(t, o)
    \/ RedisDisconnect(t)
    \/ MysqlNew(t)
    \/ \E o \in MysqlOps : MysqlCall(t, o)
    \/ MysqlTransaction(t)
    \/ MysqlClose(t)

SpecOps == Init /\ [][NextOps]_vars

\* Threads calling collection_info concurrently, with a fair lock and
\* backend calls that end: a thread that can take the lock in
\* get_connection does so at some time, and the probe and the reconnect
\* under the lock come to an end. Nothing is assumed about the work of the
\* operations or about release_connection.
NextLive == \E t \in Threads : PoolStep(t, {"collection_info"})

FairGetConnection ==
  \A t \in Threads :
    SF_vars(GetConnectionPop(t)) /\ WF_vars(GetConnectionCheck(t))

SpecLive == Init /\ [][NextLive]_vars /\ FairGetConnection

\* Threads constructing and closing the MysqlClient concurrently.
NextMysql ==
  \E t \in Threads :
    \/ \E o \in MysqlConstructors : MysqlConstruct(t, o)
    \/ MysqlGetInstance(t)
    \/ MysqlAlloc(t)
    \/ MysqlInit(t)
    \/ MysqlClose(t)
    \/ Return(t)

SpecMysql == Init /\ [][NextMysql]_vars

\* ------------------------------------------------------------ properties

\* What the events of the current call of thread t say.
Attempts(t) == Count(ev[t], "work_ok") + Count(ev[t], "work_raised")
Reconnects(t) == Count(ev[t], "reconnect_ok") + Count(ev[t], "reconnect_failed")
Releases(t) == Count(ev[t], "release_connection")
Acquired(t) == "get_connection" \in Range(ev[t])
\* Thread t got alias s from get_connection and has not given it to
\* release_connection.
Holds(t, s) == s # NoAlias /\ conn_alias[t] = s /\ Acquired(t) /\ Releases(t) = 0

\* C1: every MilvusClient operation that acquired a slot has passed it to
\* release_connection when it finishes, whichever way it ends, and the slot
\* is back in the available set.
C1_ReleasedOnEveryExit ==
  \A t \in Threads :
    (pc[t] = "done" /\ op[t] \in MilvusOps /\ Acquired(t))
      => (Releases(t) = 1 /\ conn_alias[t] \in Range(connection_pool))

\* C2: no two threads hold the same connection alias at the same time.
C2_NoSharedSlot ==
  \A t1, t2 \in Threads :
    \A s \in Aliases : (Holds(t1, s) /\ Holds(t2, s)) => t1 = t2

\* All pool_size connections have been created.
FullyInitialized == \A a \in Aliases : constructed[a] > 0

\* C3: once the pool is fully initialized, between operations on the pool
\* the outstanding slots plus the available slots number pool_size.
C3_OutstandingPlusAvailable ==
  (FullyInitialized /\ lock = Unlocked)
    => outstanding + Len(connection_pool) = pool_size

\* The slots get_connection has popped and not yet returned to its caller.
InGetConnection == Cardinality({t \in Threads : pc[t] = "check_connection"})

\* C4: the slots handed out (and not released) never outnumber the
\* connections init_connection_pool has created up to that time, each
\* creation counted, that of a re-created alias included.
C4_HandedOutAtMostConstructed ==
  outstanding + InGetConnection <= Constructed(constructed)

\* C4 witness: more slots are handed out than the pool's size, after a
\* get_connection on an empty pool created connections again.
C4_Witness ==
  /\ outstanding > pool_size
  /\ outstanding <= Constructed(constructed)

\* C5: a call of execute_with_retry that obtained a slot calls func at most
\* twice and release_connection exactly once.
C5_TwoAttemptsOneRelease ==
  \A t \in Threads :
    (op[t] = "execute_with_retry" /\ Acquired(t))
      => /\ Attempts(t) <= 2
         /\ Releases(t) <= 1
         /\ (pc[t] = "done" => (Attempts(t) >= 1 /\ Releases(t) = 1))

\* C5 witness: func failed in both attempts and the slot was released once.
C5_Witness ==
  \E t \in Threads :
    /\ op[t] = "execute_with_retry" /\ pc[t] = "done" /\ ret[t] = "raised"
    /\ Count(ev[t], "work_raised") = 2
    /\ Releases(t) = 1

\* The events of a call of execute_with_retry, in order, for each outcome.
RetryTraces ==
  LET head == <<"get_connection", "work_raised">>
      recs == {<<"reconnect_ok">>, <<"reconnect_failed", "Log.error">>}
  IN {<<"get_connection", "work_ok", "release_connection">>}
     \cup {head \o r \o <<w, "release_connection">> :
             r \in recs, w \in {"work_ok", "work_raised"}}

IsPrefix(s, u) == Len(s) <= Len(u) /\ SubSeq(u, 1, Len(s)) = s

\* C6: in a call of execute_with_retry that obtained a slot the events are
\* get_connection, func; reconnect and one more func if and only if the
\* first func failed; release_connection; all on the slot get_connection
\* returned. The call ends raised iff the last func failed.
C6_OrderInv ==
  \A t \in Threads :
    (op[t] = "execute_with_retry" /\ Acquired(t))
      => /\ \E u \in RetryTraces : IsPrefix(ev[t], u)
         /\ (pc[t] = "done"
               => /\ ev[t] \in RetryTraces
                  /\ (ret[t] = "raised") = (ev[t][Len(ev[t]) - 1] = "work_raised")
                  /\ (ret[t] = "returned") = (ev[t][Len(ev[t]) - 1] = "work_ok"))

C6_SameSlot ==
  \A t \in Threads :
    (op[t] = "execute_with_retry" /\ Acquired(t) /\ pc[t] # "done")
      => conn_alias'[t] = conn_alias[t]

C6_RetryOrder == []C6_OrderInv /\ [][C6_SameSlot]_vars

\* C6 witness: the first func failed, the second succeeded, the slot was
\* released and the result returned.
C6_Witness ==
  \E t \in Threads :
    /\ op[t] = "execute_with_retry" /\ pc[t] = "done" /\ ret[t] = "returned"
    /\ ev[t] = <<"get_connection", "work_raised", "reconnect_ok", "work_ok",
                 "release_connection">>

\* The calls that re-establish a connection: reconnect (MilvusClient) and
\* connect (RedisClient).
Repairs(t) ==
  Reconnects(t) + Count(ev[t], "connect_ok") + Count(ev[t], "connect_raised")
WorkEvents == {"work_ok", "work_raised"}
\* The first attempt at the work of the call failed.
FirstAttemptFailed(t) ==
  \E i \in 1..Len(ev[t]) :
    /\ ev[t][i] = "work_raised"
    /\ \A j \in 1..(i - 1) : ev[t][j] \notin WorkEvents
ClientOps == MilvusOps \cup RedisOps \cup MysqlOps

C8_ReleasedIsAvailable ==
  /\ lastReleased.alias # NoAlias
       => lastReleased.alias \in Range(connection_pool)
  /\ \A t \in Threads :
       gc[t].after_release # NoAlias
         => /\ gc[t].created = 0
            /\ conn_alias[t] # NoAlias
            /\ ret[t] # "raised"

\* C8 witness: get_connection returned the alias that the operation on the
\* pool just before it had released.
C8_Witness ==
  \E t \in Threads :
    /\ gc[t].after_release # NoAlias
    /\ conn_alias[t] = gc[t].after_release
    /\ gc[t].probe \notin {"none", "pending"}

\* C9: release_connection(s) with s already in the available set leaves the
\* set as it is, and releasing twice gives the pool that releasing once gives.
C9_ReleaseTwice ==
  \A s \in Aliases :
    release_connection(release_connection(connection_pool, s), s)
      = release_connection(connection_pool, s)

C9_ReleaseOfPresent ==
  \A t \in Threads :
    (pc[t] = "release_connection" /\ pc'[t] = "done"
       /\ conn_alias[t] \in Range(connection_pool))
      => connection_pool' = connection_pool

C9_ReleaseIdempotent == []C9_ReleaseTwice /\ [][C9_ReleaseOfPresent]_vars

\* C9 witness: release_connection was called with an alias that the
\* available set held already.
C9_Witness ==
  /\ lastReleased.was_present
  /\ Count(connection_pool, lastReleased.alias) = 1

\* C10 as stated: a failed reconnect is surfaced to the caller, so that
\* get_connection does not return the slot and execute_with_retry does not
\* go on with it.
C10_FailedReconnectRaises ==
  \A t \in Threads :
    /\ gc[t].probe = "reconnect_failed" => ret[t] = "raised"
    /\ (op[t] = "execute_with_retry" /\ "reconnect_failed" \in Range(ev[t]))
         => Attempts(t) = 1

\* C10, amended: a failed reconnect is logged and not raised, and reconnect
\* makes no further attempt: get_connection returns the slot, which has no
\* connection, and execute_with_retry makes its second func call.
C10_FailedReconnectSwallowed ==
  \A t \in Threads :
    /\ gc[t].probe = "reconnect_failed"
         => /\ pc[t] \in {"work", "has_collection"}
            /\ ret[t] = "none"
            /\ Acquired(t)
            /\ conn_alias[t] \notin connected
    /\ \A i \in 1..Len(ev[t]) :
         ev[t][i] = "reconnect_failed"
           => /\ i < Len(ev[t]) /\ ev[t][i + 1] = "Log.error"
              /\ Reconnects(t) = 1
    /\ (op[t] = "execute_with_retry" /\ "reconnect_failed" \in Range(ev[t]))
         => /\ pc[t] \in {"retry", "release_connection", "done"}
            /\ (pc[t] # "retry" => Attempts(t) = 2)

\* C10 witness: in execute_with_retry the reconnect failed and func was
\* called a second time.
C10_Witness ==
  \E t \in Threads :
    /\ op[t] = "execute_with_retry" /\ pc[t] = "done"
    /\ "reconnect_failed" \in Range(ev[t])
    /\ Attempts(t) = 2

\* The positions of a call from which the next step of the thread is a call
\* to the backend made inside get_connection: the liveness probe, and the
\* reconnect that follows a failed probe.
BackendCallInGetConnection == {"check_connection"}

\* C11: no thread holds the pool lock while it makes a backend call, so a
\* thread that wants the lock never waits for another thread's backend call.
C11_NoBackendCallUnderLock ==
  \A t \in Threads :
    pc[t] \in BackendCallInGetConnection
      => /\ lock # t
         /\ \A u \in Threads \ {t} :
              pc[u] \in {"get_connection", "release_connection"}
                => lock = Unlocked

\* C12: with no close(), the threads that construct MysqlClient, directly
\* or through get_instance, all get the one instance, the pool is built at
\* most once, and a constructor that finds the client initialized leaves
\* the client as it is.
C12_State ==
  /\ mysql.objects <= 1
  /\ mysql.closes = 0 => mysql.pools <= 1
  /\ \A t \in Threads :
       (op[t] \in MysqlConstructors /\ pc[t] = "done" /\ ret[t] = "returned")
         => (mysql.instance /\ mysql.objects = 1)

C12_InitOfInitialized ==
  \A t \in Threads :
    (pc[t] = "MysqlClient.__init__" /\ pc'[t] = "done" /\ mysql.initialized)
      => (mysql' = mysql /\ ret'[t] = "returned")

C12_OneInstanceOnePool == []C12_State /\ [][C12_InitOfInitialized]_vars

\* C12 witness: a thread that saw no instance in get_instance is about to
\* run __init__ after another thread has built the pool.
C12_Witness ==
  \E t \in Threads :
    /\ op[t] = "MysqlClient.get_instance"
    /\ pc[t] = "MysqlClient.__init__"
    /\ mysql.initialized /\ mysql.pools = 1 /\ mysql.closes = 0

TransactionEnds == {"commit", "commit_raised", "rollback", "rollback_raised"}

\* C13: a transaction scope that was entered calls exactly one of commit and
\* rollback on exit, commit if and only if the body raised nothing; then it
\* closes the cursor and the connection, each exactly once, also when the
\* commit or the rollback raised; an exception of the body reaches the
\* caller.
C13_TransactionExit ==
  \A t \in Threads :
    (op[t] = "MysqlClient.transaction" /\ pc[t] = "done"
       /\ "cursor" \in Range(ev[t]))
      => LET e == ev[t]
             n == Len(e)
             ends == {i \in 1..n : e[i] \in TransactionEnds}
         IN /\ Cardinality(ends) = 1
            /\ \A i \in ends :
                 /\ e[i] \in {"commit", "commit_raised"}
                      <=> "body_ok" \in Range(e)
                 /\ i < n - 1
            /\ Count(e, "connection") = 1
            /\ Count(e, "cursor.close") = 1 /\ Count(e, "conn.close") = 1
            /\ e[n - 1] = "cursor.close" /\ e[n] = "conn.close"
            /\ "body_raised" \in Range(e) => ret[t] = "raised"
            /\ ret[t] = "returned" <=> "commit" \in Range(e)

\* C13 witness: the body raised, the rollback raised too, and the cursor
\* and the connection were closed.
C13_Witness ==
  \E t \in Threads :
    /\ op[t] = "MysqlClient.transaction" /\ pc[t] = "done"
    /\ ev[t] = <<"connection", "cursor", "body_raised", "rollback_raised",
                 "cursor.close", "conn.close">>
    /\ ret[t] = "raised"

MysqlManyOps == {"MysqlClient.execute_many", "MysqlClient.insert_many"}

\* C14: execute_many(sql, []) and insert_many(table, []) return 0 without
\* taking a connection from the pool and without a statement, a commit or
\* a rollback, whatever the state of the client; the client is unchanged.
C14_EmptyReturnsZero ==
  \A t \in Threads :
    (op[t] \in MysqlManyOps /\ pc[t] = "done" /\ ev[t] # <<>>
       /\ ev[t][1] = "empty_argument")
      => (ev[t] = <<"empty_argument">> /\ ret[t] = "returned 0")

C14_ClientUnchanged ==
  \A t \in Threads :
    (pc[t] = "idle" /\ pc'[t] = "done" /\ op'[t] \in MysqlManyOps)
      => mysql' = mysql

C14_EmptyIsNoOp == []C14_EmptyReturnsZero /\ [][C14_ClientUnchanged]_vars

\* C14 witness: insert_many([]) returned 0 on a client whose pool could
\* not be built.
C14_Witness ==
  \E t \in Threads :
    /\ op[t] = "MysqlClient.insert_many" /\ pc[t] = "done"
    /\ ev[t] = <<"empty_argument">> /\ ret[t] = "returned 0"
    /\ ~mysql.pool

RedisQueueOps == {"RedisClient.push", "RedisClient.fetch"}

\* C15: push and fetch reach the backend list, and the values that the
\* fetch calls of the client return are, in order, the text forms of the
\* values pushed (first pushed, first fetched).
C15_QueueIsFIFO ==
  /\ \A t \in Threads :
       (op[t] \in RedisQueueOps /\ pc[t] = "done")
         => "AttributeError" \notin Range(ev[t])
  /\ Len(redis.fetched) <= Len(redis.pushed)
  /\ \A i \in 1..Len(redis.fetched) :
       redis.fetched[i] = [type |-> "str", v |-> redis.pushed[i]]

\* C16: a search whose backend call raises MilvusException with code 1100
\* returns the empty list, raises nothing and calls no reconnect, and the
\* slot it took is given back.
C16_SearchNotLoaded ==
  \A t \in Threads :
    (op[t] = "search" /\ "MilvusException1100" \in Range(ev[t]))
      => /\ ret[t] = "soft"
         /\ Reconnects(t) = 0
         /\ pc[t] \in {"release_connection", "done"}
         /\ pc[t] = "done"
              => /\ Releases(t) = 1
                 /\ ev[t][Len(ev[t])] = "release_connection"
                 /\ conn_alias[t] \in Range(connection_pool)

\* C16 witness: such a search is over.
C16_Witness ==
  \E t \in Threads :
    /\ op[t] = "search" /\ pc[t] = "done"
    /\ ev[t] = <<"get_connection", "work_raised", "MilvusException1100",
                 "release_connection">>

\* C20: a search whose backend call fails with anything but MilvusException
\* code 1100 reconnects the slot and raises the failure to its caller.
C20_SearchReRaises ==
  \A t \in Threads :
    (op[t] = "search" /\ pc[t] = "done"
       /\ "work_raised" \in Range(ev[t])
       /\ "MilvusException1100" \notin Range(ev[t]))
      => (ret[t] = "raised" /\ Reconnects(t) = 1)

JustReturned(t) == gc[t].probe \notin {"none", "pending"}

\* C18: a slot that get_connection returns was probed in that call; a slot
\* whose probe succeeded is returned as it is, with no reconnect, and a slot
\* whose probe failed went through reconnect first.
C18_State ==
  \A t \in Threads :
    /\ (Acquired(t) /\ pc[t] \in {"work", "has_collection"}
          /\ Attempts(t) = 0 /\ "has_collection_present" \notin Range(ev[t]))
         => JustReturned(t)
    /\ JustReturned(t) => conn_alias[t] # NoAlias

C18_Step ==
  \A t \in Threads :
    (pc[t] = "check_connection" /\ pc'[t] # "check_connection")
      => /\ JustReturned(t)'
         /\ conn_alias'[t] = conn_alias[t]
         /\ conn_alias[t] \notin connected => gc'[t].probe # "ok"
         /\ gc'[t].probe = "ok" => connected' = connected
         /\ gc'[t].probe = "reconnect_ok"
              => connected' = reconnect(connected, conn_alias[t], TRUE)
         /\ gc'[t].probe = "reconnect_failed"
              => connected' = reconnect(connected, conn_alias[t], FALSE)

C18_ProbedBeforeReturn == []C18_State /\ [][C18_Step]_vars

\* C18 witness: get_connection returned a slot whose probe had failed and
\* that reconnect brought back.
C18_Witness ==
  \E t \in Threads :
    /\ gc[t].probe = "reconnect_ok"
    /\ pc[t] = "work" /\ conn_alias[t] \in connected

\* C19: every call of get_connection returns a slot or raises, whether or
\* not a slot that is out is ever released.
C19_GetConnectionEnds ==
  \A t \in Threads :
    (pc[t] = "get_connection")
      ~> (pc[t] \in {"work", "has_collection", "done"})

\* C19 witness: get_connection found the list empty, created connections
\* and returned a slot while another slot was out.
C19_Witness ==
  \E t \in Threads :
    /\ JustReturned(t) /\ gc[t].created > 0
    /\ outstanding >= 2

\* The aliases of the indices in ok, in the order of the loop.
RECURSIVE AliasesOf(_, _)
AliasesOf(idx, ok) ==
  IF idx >= pool_size THEN <<>>
  ELSE (IF idx \in ok THEN <<alias_id(idx)>> ELSE <<>>)
         \o AliasesOf(idx + 1, ok)

\* C21, init_connection_pool on an empty list, for every set ok of indices
\* whose connect succeeds: pool_size creations are attempted, the failed
\* ones are logged and do not stop the loop, and the list holds exactly the
\* aliases whose creation succeeded.
C21_BestEffort ==
  \A ok \in SUBSET (0..(pool_size - 1)) :
    LET st == init_connection_pool(<<>>, connected, constructed, ok) IN
    /\ st.pool = AliasesOf(0, ok)
    /\ st.errors = pool_size - Cardinality(ok)
    /\ Constructed(st.constructed) - Constructed(constructed)
         = Cardinality(ok)
    /\ \A i \in 0..(pool_size - 1) :
         st.constructed[alias_id(i)]
           = constructed[alias_id(i)] + (IF i \in ok THEN 1 ELSE 0)
    /\ Range(st.pool) \subseteq st.connected

\* C21: after the construction of the client the list holds the aliases
\* whose creation succeeded.
C21_AfterConstruction ==
  calls = 0
    => /\ Range(connection_pool) = {a \in Aliases : constructed[a] = 1}
       /\ connected = Range(connection_pool)
       /\ Len(connection_pool) = Constructed(constructed)

\* C21: connections are created only by a get_connection that finds the
\* list empty, and the list then gains exactly the aliases created (one of
\* which get_connection takes at once).
C21_OnlyGetOnEmptyCreates ==
  /\ constructed' # constructed
       => \E t \in Threads :
            /\ pc[t] = "get_connection" /\ pc'[t] # "get_connection"
            /\ connection_pool = <<>>
  /\ \A t \in Threads :
       (pc[t] = "get_connection" /\ pc'[t] # "get_connection"
          /\ connection_pool = <<>>)
         => /\ gc'[t].created
                 = Constructed(constructed') - Constructed(constructed)
            /\ gc'[t].created
                 = Len(connection_pool')
                   + (IF pc'[t] = "check_connection" THEN 1 ELSE 0)
  /\ Len(connection_pool') > Len(connection_pool) + 1
       => connection_pool = <<>>

C22_GetInstanceInitialized ==
  \A t \in Threads :
    (op[t] = "MysqlClient.get_instance" /\ pc[t] = "done"
       /\ ret[t] = "returned" /\ mysql.closes = 0)
      => (mysql.initialized /\ mysql.pool)

\* C23: a call of RedisClient() that returns the instance returns it with
\* an established connection.
C23_InstanceConnected ==
  \A t \in Threads :
    (op[t] = "RedisClient.__new__" /\ pc[t] = "done" /\ ret[t] = "returned")
      => redis.connection

\* C24: the list of available aliases holds no alias twice and at most
\* pool_size entries.
C24_NoDuplicateAlias ==
  /\ \A a \in Aliases : Count(connection_pool, a) <= 1
  /\ Len(connection_pool) <= pool_size
  /\ Range(connection_pool) \subseteq Aliases

\* C24 witness: the list is full again while slots are out, after a
\* get_connection on the empty list created the connections anew and the
\* slot was given back.
C24_Witness ==
  /\ Len(connection_pool) = pool_size
  /\ outstanding >= 1
  /\ Constructed(constructed) > pool_size
  /\ lastReleased.alias # NoAlias

\* C25: a get_connection that finds the list empty and whose
\* init_connection_pool creates no connection ends with an error (the pop
\* from the empty list raises IndexError): it returns no slot, the list is
\* still empty, and the lock is free again, so that a thread that wants
\* to take or give back a slot can do so.
C25_State ==
  /\ \A t \in Threads :
       "IndexError" \in Range(ev[t])
         => /\ pc[t] = "done" /\ ret[t] = "raised"
            /\ conn_alias[t] = NoAlias
            /\ ~Acquired(t)
            /\ gc[t].created = 0
  /\ lock # Unlocked => pc[lock] = "check_connection"
  /\ \A t, u \in Threads :
       ("IndexError" \in Range(ev[t]) /\ lock = Unlocked)
         => /\ pc[u] = "get_connection" => ENABLED GetConnectionPop(u)
            /\ pc[u] = "release_connection" => ENABLED Release(u)

C25_Step ==
  \A t \in Threads :
    (pc[t] = "get_connection" /\ pc'[t] # "get_connection"
       /\ connection_pool = <<>> /\ constructed' = constructed)
      => /\ "IndexError" \in Range(ev'[t])
         /\ pc'[t] = "done" /\ ret'[t] = "raised"
         /\ connection_pool' = <<>>
         /\ lock' = Unlocked
         /\ outstanding' = outstanding

C25_EmptyPoolRaises == []C25_State /\ [][C25_Step]_vars

\* C25 witness: a get_connection ended with IndexError while another
\* thread is in a call that can go on to take or give back a slot.
C25_Witness ==
  \E t, u \in Threads :
    /\ t # u
    /\ "IndexError" \in Range(ev[t]) /\ pc[t] = "done"
    /\ pc[u] \in {"get_connection", "release_connection"}
    /\ lock = Unlocked

====
